---- MODULE Spec2Model ----
(***************************************************************************)
(* The application lifecycle engine of fplus-lib (core/mod.rs) over a      *)
(* GitHub-like document store: branches, pull requests, a main line, and   *)
(* conditional writes keyed by the blob sha of the file being replaced.    *)
(*                                                                         *)
(* Every await of the source is one step of a caller, so that concurrent   *)
(* callers interleave exactly at the remote I/O calls.                     *)
(***************************************************************************)
EXTENDS Integers, Sequences, FiniteSets, TLC

\* ---------------------------------------------------------------- bounds
NumApps == 1
NumProcs == 2
MaxUuid == 2
\* the applications of the store; those beyond NumApps are worked on by a
\* single caller only (SpecApps)
NumStored == 2

Ids == 1..NumApps
Procs == 1..NumProcs
AllIds == 1..NumStored
OneCaller == {1}
Signers == {"bob", "carol"}
RefillAmounts == {"50TiB"}
\* request ids a caller may send: every id ever generated, and 0 (no such request)
RequestIds == 0..MaxUuid

VARIABLES
  main,      \* main line: path -> file slot (<<>> absent, <<doc>> present)
  branch,    \* branch name -> [exists, files: path -> file slot]
  prs,       \* open pull requests: set of [head, file]
  uuidCtr,   \* number of uuids generated so far (uuidv4 is fresh per call)
  proc,      \* per caller: position, operation, handle and locals
  log,       \* history: per application id, the committed versions in order
  created    \* history: the ids for which create application has returned Ok

vars == <<main, branch, prs, uuidCtr, proc, log, created>>

\* ------------------------------------------------------ documents (file.rs)
\* serde_json fails on the placeholder "{}" that create_empty_pr commits
Placeholder == [id |-> 0, state |-> "{}", active |-> FALSE, total |-> "", allocs |-> <<>>]

Parses(doc) == doc.state # "{}"

First == [kind |-> "First", n |-> 0]

Refill(k) == [kind |-> "Refill", n |-> k]

\* ApplicationFile::new: state GovernanceReview, active, no allocation
NewApplicationFile(id) ==
  [id |-> id, state |-> "GovernanceReview", active |-> TRUE, total |-> "100TiB",
   allocs |-> <<>>]

\* AllocationRequest::new(actor, id, kind, amount): a request without signers
NewAllocationRequest(uuid, type, amount) ==
  [id |-> uuid, type |-> type, amount |-> amount, signers |-> <<>>]

\* a request is complete once it holds the required number of signers
RequiredSigners == 2

\* Allocations::is_active(request_id): the request is the most recently created
\* one whose signer list has not reached the required count
IsActive(allocs, rid) ==
  \E i \in 1..Len(allocs) :
    /\ allocs[i].id = rid
    /\ Len(allocs[i].signers) < RequiredSigners
    /\ \A j \in (i+1)..Len(allocs) : Len(allocs[j].signers) >= RequiredSigners

\* Allocations::add_signer: append the signer to the request with that id
AddSigner(allocs, rid, signer) ==
  [i \in 1..Len(allocs) |->
     IF allocs[i].id = rid
       THEN [allocs[i] EXCEPT !.signers = Append(@, signer)]
       ELSE allocs[i]]

\* ApplicationFile::complete_governance_review(actor, request)
DocCompleteGovernanceReview(doc, request) ==
  [doc EXCEPT !.state = "ReadyToSign", !.allocs = <<request>>]

\* lifecycle.finish_proposal() + ApplicationFile::add_signer_to_allocation
DocAddSignerToAllocation(doc, signer, rid) ==
  [doc EXCEPT !.state = "StartSignDatacap", !.allocs = AddSigner(@, rid, signer)]

\* lifecycle.finish_approval() + ApplicationFile::add_signer_to_allocation_and_complete
DocAddSignerToAllocationAndComplete(doc, signer, rid) ==
  [doc EXCEPT !.state = "Granted", !.allocs = AddSigner(@, rid, signer)]

\* ApplicationFile::start_refill_request(request): the request joins the
\* sequence; the lifecycle state label stays Granted
DocStartRefillRequest(doc, request) ==
  [doc EXCEPT !.allocs = Append(@, request)]

\* ApplicationFile::reached_total_datacap(): the application becomes archival
DocReachedTotalDatacap(doc) ==
  [doc EXCEPT !.active = FALSE]

\* ------------------------------------------------------------ store names
ApplicationBranchName(id) == <<"Application", id>>

ApplicationPath(id) == <<id, ".json">>

BranchNames == {ApplicationBranchName(i) : i \in AllIds}
Paths == {ApplicationPath(i) : i \in AllIds}

ParsedIdOther(issue_number) == NumStored + 1 - issue_number

\* the issue parser: the application id is the ticket's number
ParsedId(issue_number) == issue_number

\* the version token of a file is the hash of its content
Sha(slot) == <<"sha", slot>>

NoSha == <<>>
NoFiles == [p \in Paths |-> <<>>]
NoBranch == [exists |-> FALSE, files |-> NoFiles]

\* gh.get_file(path, branch): <<>> when the branch or the file is missing
GetFile(path, b) ==
  IF b \in BranchNames /\ path \in Paths /\ branch[b].exists
    THEN branch[b].files[path] ELSE <<>>

BranchNeverTaken(b) == FALSE

\* creating a branch fails when a branch of that name exists
BranchTaken(b) == branch[b].exists

\* the pull request opened for the file at path on head branch b; the store
\* tells pull requests on one head apart (their numbers): copy is the number
\* of those already open
OpenPr(b, path) ==
  [head |-> b, file |-> path,
   copy |-> Cardinality({q \in prs : q.head = b /\ q.file = path})]

\* where the file of a pull request lives: files.1.get(0) of the head branch
PrFile(pr) == GetFile(pr.file, pr.head)

\* GithubWrapper::update_file_content(path, .., branch, file_sha): the store
\* replaces the file only when file_sha is the sha of the file it holds
CanUpdate(path, b, file_sha) ==
  /\ GetFile(path, b) # <<>>
  /\ Sha(GetFile(path, b)) = file_sha

\* ------------------------------------------------------------- callers
\* a caller between calls: it has made no call yet, or holds the answer of its
\* last one
Free(p) == proc[p].pc \in {"idle", "done"}

Idle ==
  [pc |-> "idle", kind |-> "none", id |-> 0, issue |-> 0, rid |-> 0,
   sha |-> NoSha, file_name |-> <<>>, branch_name |-> <<>>,
   seen |-> "", doc |-> <<>>, newdoc |-> <<>>,
   result |-> "", wrote |-> FALSE, cause |-> "", pre |-> <<>>, later |-> FALSE,
   obs |-> <<>>, listed |-> {}, reuse |-> FALSE]

Done(p, r) == [proc[p] EXCEPT !.pc = "done", !.result = r]

Init ==
  /\ main = NoFiles
  /\ branch = [b \in BranchNames |-> NoBranch]
  /\ prs = {}
  /\ uuidCtr = 0
  /\ proc = [p \in Procs |-> Idle]
  /\ log = [i \in AllIds |-> <<>>]
  /\ created = {}

\* one committed version: the document, the document the writer computed it
\* from, and the token the write carried
Version(doc, read, token) ==
  [doc |-> doc, read |-> read, token |-> token]

\* ------------------------------------------------- directory (active, merged)
\* load_pr_files unwraps the fetch and the parse of every pull request
ActivePanics == \E pr \in prs : PrFile(pr) = <<>> \/ ~Parses(PrFile(pr)[1])

\* LDNApplication::active(filter): one entry per open pull request
Active(filter) ==
  {[pr |-> pr, app |-> PrFile(pr)[1]] :
     pr \in {q \in prs : filter = <<>> \/ PrFile(q)[1].id = filter[1]}}

\* think_merged: a main-line file that does not parse, or whose lifecycle is
\* not active, is an error, and try_join_all fails the whole listing
ThinkMergedFails(path) ==
  /\ main[path] # <<>>
  /\ (~Parses(main[path][1]) \/ ~main[path][1].active)

MergedFails == \E path \in Paths : ThinkMergedFails(path)

MergedKeepsStaged(app) == app.active

\* the filter of merged(): not staged, and active
MergedKeeps(app) ==
  /\ \A a \in Active(<<>>) : a.app.id # app.id
  /\ app.active

\* LDNApplication::merged(): (content, application) per main-line file kept
Merged ==
  {[path |-> path, sha |-> Sha(main[path]), app |-> main[path][1]] :
     path \in {q \in Paths : main[q] # <<>> /\ MergedKeeps(main[q][1])}}

\* ------------------------------------------------------ create application
\* new_from_issue up to gh.get_file(app_path, app_branch_name): an existing
\* document ends the call with "already exists"
NewFromIssue(p, issue_number) ==
  /\ Free(p)
  /\ LET id == ParsedId(issue_number)
         found == GetFile(ApplicationPath(id), ApplicationBranchName(id))
         me == [Idle EXCEPT !.kind = "create", !.id = id, !.issue = issue_number,
                            !.pre = found, !.later = id \in created]
     IN proc' = [proc EXCEPT ![p] =
                   IF found # <<>>
                     THEN [me EXCEPT !.pc = "done", !.result = "AlreadyExists"]
                     ELSE [me EXCEPT !.pc = "create_empty_pr"]]
  /\ UNCHANGED <<main, branch, prs, uuidCtr, log, created>>

\* create_empty_pr -> gh.create_merge_request: create the branch off the main
\* line, add the file "{}" to it, open the pull request
CreateEmptyPr(p) ==
  /\ proc[p].pc = "create_empty_pr"
  /\ \E ok \in BOOLEAN :
       LET b == ApplicationBranchName(proc[p].issue)
           path == ApplicationPath(proc[p].id)
           fresh == [exists |-> TRUE, files |-> main]
       IN IF ~ok \/ BranchTaken(b)
            THEN \* the branch cannot be created
                 /\ proc' = [proc EXCEPT ![p] = Done(p, "CreateFailed")]
                 /\ UNCHANGED <<branch, prs, log>>
            ELSE IF main[path] # <<>>
              THEN \* the file is already on the new branch: adding it fails
                   /\ branch' = [branch EXCEPT ![b] = fresh]
                   /\ proc' = [proc EXCEPT ![p] = Done(p, "CreateFailed")]
                   /\ UNCHANGED <<prs, log>>
              ELSE /\ branch' = [branch EXCEPT ![b] =
                                   [fresh EXCEPT !.files[path] = <<Placeholder>>]]
                   /\ prs' = prs \cup {OpenPr(b, path)}
                   /\ log' = [log EXCEPT ![proc[p].id] =
                                Append(@, Version(Placeholder, <<>>, NoSha))]
                   /\ proc' = [proc EXCEPT ![p].pc = "create_commit",
                                           ![p].sha = Sha(<<Placeholder>>)]
  /\ UNCHANGED <<main, uuidCtr, created>>

\* new_from_issue from ApplicationFile::new to its Ok: the initial document is
\* committed over the placeholder through pr_handler.add_commit, whose result
\* is dropped: the call returns Ok either way
CreateCommit(p) ==
  /\ proc[p].pc = "create_commit"
  /\ \E ok \in BOOLEAN :
       LET id == proc[p].id
           path == ApplicationPath(id)
           b == ApplicationBranchName(id)
           doc == NewApplicationFile(id)
           applied == ok /\ CanUpdate(path, b, proc[p].sha)
           after == IF applied THEN [branch EXCEPT ![b].files[path] = <<doc>>]
                    ELSE branch
       IN /\ branch' = after
          /\ log' = IF applied
                      THEN [log EXCEPT ![id] =
                              Append(@, Version(doc, <<Placeholder>>, proc[p].sha))]
                      ELSE log
          /\ proc' = [proc EXCEPT ![p] =
                        [proc[p] EXCEPT
                           !.pc = "done",
                           !.result = "Ok",
                           !.wrote = TRUE,
                           !.cause = IF applied THEN ""
                                     ELSE IF ok THEN "VersionConflict"
                                     ELSE "AdapterError",
                           !.file_name = path, !.branch_name = b,
                           !.obs = IF after[b].exists THEN after[b].files[path]
                                   ELSE <<>>]]
          /\ created' = created \cup {id}
  /\ UNCHANGED <<main, prs, uuidCtr>>

\* ------------------------------------------------------------ transitions
Transitions == {"trigger", "propose", "approve"}

RequiredStateFirst(kind) == "GovernanceReview"

\* the lifecycle state each transition matches on
RequiredState(kind) ==
  CASE kind = "trigger" -> "GovernanceReview"
    [] kind = "propose" -> "ReadyToSign"
    [] kind = "approve" -> "StartSignDatacap"

\* LDNApplication::load(application_id): the pull requests whose document
\* carries the id; the handle takes sha, file name and head branch of one
LoadMatches(id) == {pr \in prs : PrFile(pr)[1].id = id}

\* the route handlers: load(id), then the transition on the handle
Load(p, kind, id) ==
  /\ Free(p)
  /\ kind \in Transitions
  /\ LET me == [Idle EXCEPT !.kind = kind, !.id = id]
     IN IF ActivePanics
          THEN proc' = [proc EXCEPT ![p] = [me EXCEPT !.pc = "done", !.result = "Panic"]]
          ELSE IF LoadMatches(id) = {}
            THEN proc' = [proc EXCEPT ![p] =
                            [me EXCEPT !.pc = "done", !.result = "LoadError"]]
            ELSE \E pr \in LoadMatches(id) :
                   proc' = [proc EXCEPT ![p] =
                              [me EXCEPT !.pc = "app_state",
                                         !.sha = Sha(PrFile(pr)),
                                         !.file_name = pr.file,
                                         !.branch_name = pr.head]]
  /\ UNCHANGED <<main, branch, prs, uuidCtr, log, created>>

\* LDNApplication::file(): the document at the path and branch derived from
\* the application id
File(id) == GetFile(ApplicationPath(id), ApplicationBranchName(id))

FileFails(id) == File(id) = <<>> \/ ~Parses(File(id)[1])

StateAcceptsAny(kind, state) == TRUE

\* the match on app_state() of the three transitions
StateAccepts(kind, state) == state = RequiredState(kind)

\* self.app_state().await and the match on it
AppState(p) ==
  /\ proc[p].pc = "app_state"
  /\ proc' = [proc EXCEPT ![p] =
       IF FileFails(proc[p].id)
         THEN Done(p, "FileError")
         ELSE LET s == File(proc[p].id)[1].state
              IN IF StateAccepts(proc[p].kind, s)
                   THEN [proc[p] EXCEPT !.pc = "file", !.seen = s]
                   ELSE [proc[p] EXCEPT !.pc = "done", !.seen = s,
                                        !.result = "InvalidState"]]
  /\ UNCHANGED <<main, branch, prs, uuidCtr, log, created>>

ProposalChecksNothing(doc, rid) == TRUE

\* complete_new_application_proposal: app_file.allocation.is_active(request_id)
ProposalChecks(doc, rid) == IsActive(doc.allocs, rid)

\* complete_new_application_approval: the request id is not checked
ApprovalChecks(doc, rid) == TRUE

TransitionRewritesSigners(kind, doc, who, rid, uuid) ==
  IF kind = "trigger"
    THEN DocCompleteGovernanceReview(doc, NewAllocationRequest(uuid, First, doc.total))
    ELSE [doc EXCEPT !.state = IF kind = "propose" THEN "StartSignDatacap" ELSE "Granted",
                     !.allocs = [i \in 1..Len(@) |-> [@[i] EXCEPT !.signers = <<who>>]]]

\* the new ApplicationFile each transition builds from the one it read
Transition(kind, doc, who, rid, uuid) ==
  CASE kind = "trigger" ->
         DocCompleteGovernanceReview(doc, NewAllocationRequest(uuid, First, doc.total))
    [] kind = "propose" -> DocAddSignerToAllocation(doc, who, rid)
    [] kind = "approve" -> DocAddSignerToAllocationAndComplete(doc, who, rid)

\* self.file().await? inside the matching arm, the checks on the request id,
\* and the new document. The payload of the call (signer, request_id) is read
\* here for the first time, so it is drawn here; a trigger carries neither
ReadFile(p, who, rid) ==
  /\ proc[p].pc = "file"
  /\ proc[p].kind = "trigger" => who = "bob" /\ rid = 0
  /\ LET me == IF proc[p].kind = "trigger" THEN proc[p]
               ELSE [proc[p] EXCEPT !.rid = rid]
         uuid == uuidCtr + 1
     IN IF FileFails(me.id)
          THEN /\ proc' = [proc EXCEPT ![p] = [me EXCEPT !.pc = "done",
                                                         !.result = "FileError"]]
               /\ UNCHANGED uuidCtr
          ELSE LET doc == File(me.id)[1]
               IN IF (me.kind = "propose" /\ ~ProposalChecks(doc, me.rid))
                     \/ (me.kind = "approve" /\ ~ApprovalChecks(doc, me.rid))
                    THEN /\ proc' = [proc EXCEPT ![p] =
                                       [me EXCEPT !.pc = "done", !.doc = <<doc>>,
                                                  !.result = "RequestNotActive"]]
                         /\ UNCHANGED uuidCtr
                    ELSE /\ me.kind = "trigger" => uuidCtr < MaxUuid
                         /\ uuidCtr' = IF me.kind = "trigger" THEN uuid ELSE uuidCtr
                         /\ proc' = [proc EXCEPT ![p] =
                              [me EXCEPT !.pc = "add_commit_to", !.doc = <<doc>>,
                                 !.newdoc = <<Transition(me.kind, doc, who, me.rid, uuid)>>]]
  /\ UNCHANGED <<main, branch, prs, log, created>>

CommitShaCurrent(me) == Sha(GetFile(me.file_name, me.branch_name))

\* the token a transition hands to add_commit_to: self.file_sha, from load
CommitSha(me) == me.sha

CommitResultSwallowed(applied) == "Ok"

\* the match on the result of add_commit_to: Some(()) -> Ok(app_file),
\* None -> Err(..(1))
CommitResult(applied) == IF applied THEN "Ok" ELSE "CommitFailed"

\* LDNPullRequest::add_commit_to(file_name, branch_name, .., file_sha), called
\* once, and the match on its result
AddCommitTo(p) ==
  /\ proc[p].pc = "add_commit_to"
  /\ \E ok \in BOOLEAN :
       LET me == proc[p]
           applied == ok /\ CanUpdate(me.file_name, me.branch_name, CommitSha(me))
       IN /\ branch' = IF applied
                         THEN [branch EXCEPT ![me.branch_name].files[me.file_name] = me.newdoc]
                         ELSE branch
          /\ log' = IF applied
                      THEN [log EXCEPT ![me.id] =
                              Append(@, Version(me.newdoc[1], me.doc, CommitSha(me)))]
                      ELSE log
          /\ proc' = [proc EXCEPT ![p] =
                        [me EXCEPT !.pc = "done", !.wrote = TRUE,
                           !.result = CommitResult(applied),
                           !.cause = IF applied THEN ""
                                     ELSE IF ok THEN "VersionConflict"
                                     ELSE "AdapterError"]]
  /\ UNCHANGED <<main, prs, uuidCtr, created>>

\* ------------------------------------------------------ refill and sweep
\* the request type refill() passes to AllocationRequest::new
RefillType(doc) == Refill(0)

\* LDNApplication::refill up to the call of create_refill_pr: the application
\* is looked up in merged(), the new request is appended to it
RefillStart(p, id, amount) ==
  /\ Free(p)
  /\ uuidCtr < MaxUuid
  /\ LET me == [Idle EXCEPT !.kind = "refill", !.id = id]
         hit == {m \in Merged : m.app.id = id}
         uuid == uuidCtr + 1
     IN IF MergedFails \/ ActivePanics \/ hit = {}
          THEN /\ proc' = [proc EXCEPT ![p] =
                  [me EXCEPT !.pc = "done",
                             !.result = IF MergedFails THEN "MergedError"
                                        ELSE IF ActivePanics THEN "Panic"
                                        ELSE "RefillNotFound"]]
               /\ UNCHANGED uuidCtr
          ELSE \E m \in hit :
                 /\ uuidCtr' = uuid
                 /\ proc' = [proc EXCEPT ![p] =
                      [me EXCEPT !.pc = "create_refill_pr", !.sha = m.sha,
                         !.doc = <<m.app>>,
                         !.newdoc = <<DocStartRefillRequest(m.app,
                                        NewAllocationRequest(uuid, RefillType(m.app), amount))>>]]
  /\ UNCHANGED <<main, branch, prs, log, created>>

\* total_dc_reached up to the match on the state: the application is looked
\* up in merged(); only a Granted one goes on
TotalDcReached(p, id) ==
  /\ Free(p)
  /\ LET me == [Idle EXCEPT !.kind = "sweep", !.id = id]
         hit == {m \in Merged : m.app.id = id}
     IN IF MergedFails \/ ActivePanics \/ hit = {}
          THEN proc' = [proc EXCEPT ![p] =
                  [me EXCEPT !.pc = "done",
                             !.result = IF MergedFails THEN "MergedError"
                                        ELSE IF ActivePanics THEN "Panic"
                                        ELSE "SweepNotFound"]]
          ELSE \E m \in hit :
                 proc' = [proc EXCEPT ![p] =
                   IF m.app.state = "Granted"
                     THEN [me EXCEPT !.pc = "sweep_load", !.doc = <<m.app>>,
                                     !.newdoc = <<DocReachedTotalDatacap(m.app)>>]
                     ELSE [me EXCEPT !.pc = "done", !.result = "False"]]
  /\ UNCHANGED <<main, branch, prs, uuidCtr, log, created>>

\* total_dc_reached: LDNApplication::load(application_id).await?
SweepLoad(p) ==
  /\ proc[p].pc = "sweep_load"
  /\ IF ActivePanics
       THEN proc' = [proc EXCEPT ![p] = Done(p, "Panic")]
       ELSE IF LoadMatches(proc[p].id) = {}
         THEN proc' = [proc EXCEPT ![p] = Done(p, "LoadError")]
         ELSE \E pr \in LoadMatches(proc[p].id) :
                proc' = [proc EXCEPT ![p].pc = "sweep_get_file",
                                     ![p].file_name = pr.file,
                                     ![p].branch_name = pr.head]
  /\ UNCHANGED <<main, branch, prs, uuidCtr, log, created>>

\* total_dc_reached: gh.get_file(&ldn_app.file_name, "main").await.unwrap()
SweepGetFile(p) ==
  /\ proc[p].pc = "sweep_get_file"
  /\ proc' = [proc EXCEPT ![p] =
       IF main[proc[p].file_name] = <<>>
         THEN Done(p, "Panic")
         ELSE [proc[p] EXCEPT !.pc = "create_refill_pr",
                              !.sha = Sha(main[proc[p].file_name])]]
  /\ UNCHANGED <<main, branch, prs, uuidCtr, log, created>>

\* create_refill_pr -> gh.create_refill_merge_request: create the branch off
\* the main line, replace the file on it under file_sha, open the pull request
CreateRefillPr(p) ==
  /\ proc[p].pc = "create_refill_pr"
  /\ \E ok \in BOOLEAN :
       LET me == proc[p]
           b == ApplicationBranchName(me.id)
           path == ApplicationPath(me.id)
           fresh == [exists |-> TRUE, files |-> main]
       IN IF ~ok \/ BranchTaken(b)
            THEN /\ proc' = [proc EXCEPT ![p] = Done(p, "CreateFailed")]
                 /\ UNCHANGED <<branch, prs, log>>
            ELSE IF main[path] = <<>> \/ Sha(main[path]) # me.sha
              THEN /\ branch' = [branch EXCEPT ![b] = fresh]
                   /\ proc' = [proc EXCEPT ![p] =
                                 [me EXCEPT !.pc = "done", !.wrote = TRUE,
                                            !.result = "CreateFailed",
                                            !.cause = "VersionConflict"]]
                   /\ UNCHANGED <<prs, log>>
              ELSE /\ branch' = [branch EXCEPT ![b] =
                                   [fresh EXCEPT !.files[path] = me.newdoc]]
                   /\ prs' = prs \cup {OpenPr(b, path)}
                   /\ log' = [log EXCEPT ![me.id] =
                                Append(@, Version(me.newdoc[1], me.doc, me.sha))]
                   /\ proc' = [proc EXCEPT ![p] =
                                 [me EXCEPT !.pc = "done", !.wrote = TRUE,
                                            !.result = "Ok"]]
  /\ UNCHANGED <<main, uuidCtr, created>>

\* ---------------------------------------------------------------- listings
\* the optional id GET /application/active restricts its answer to
Filters(ids) == {<<>>} \cup {<<i>> : i \in ids}

\* LDNApplication::active(filter) as a call: the unwraps of load_pr_files end
\* it without an answer when a pull request's document cannot be fetched or
\* parsed; otherwise its Ok carries the applications listed
ListActive(p, filter) ==
  /\ Free(p)
  /\ LET me == [Idle EXCEPT !.kind = "list_active", !.pc = "done",
                            !.id = IF filter = <<>> THEN 0 ELSE filter[1]]
     IN proc' = [proc EXCEPT ![p] =
                   IF ActivePanics
                     THEN [me EXCEPT !.result = "Panic"]
                     ELSE [me EXCEPT !.result = "Ok",
                                     !.listed = {a.app.id : a \in Active(filter)}]]
  /\ UNCHANGED <<main, branch, prs, uuidCtr, log, created>>

\* LDNApplication::merged() as a call: Err when think_merged fails on a file,
\* no answer when active(None) panics, else Ok with the applications kept
ListMerged(p) ==
  /\ Free(p)
  /\ LET me == [Idle EXCEPT !.kind = "list_merged", !.pc = "done"]
     IN proc' = [proc EXCEPT ![p] =
                   IF MergedFails
                     THEN [me EXCEPT !.result = "MergedError"]
                     ELSE IF ActivePanics
                       THEN [me EXCEPT !.result = "Panic"]
                       ELSE [me EXCEPT !.result = "Ok",
                                       !.listed = {m.app.id : m \in Merged}]]
  /\ UNCHANGED <<main, branch, prs, uuidCtr, log, created>>

\* ------------------------------------------------------------ environment
\* a maintainer merges the pull request of a Granted application: its file
\* becomes the main-line copy, the pull request closes, and the head branch
\* is deleted or kept
Merge(pr, delete) ==
  /\ pr \in prs
  /\ PrFile(pr) # <<>>
  /\ Parses(PrFile(pr)[1])
  /\ PrFile(pr)[1].state = "Granted"
  /\ main' = [main EXCEPT ![pr.file] = PrFile(pr)]
  /\ prs' = prs \ {pr}
  /\ branch' = IF delete THEN [branch EXCEPT ![pr.head] = NoBranch] ELSE branch
  /\ UNCHANGED <<uuidCtr, proc, log, created>>

\* the calls of callers procs on the applications ids, and the merges
Calls(procs, ids) ==
  \/ \E p \in procs, n \in ids : NewFromIssue(p, n)
  \/ \E p \in procs : CreateEmptyPr(p)
  \/ \E p \in procs : CreateCommit(p)
  \/ \E p \in procs, kind \in Transitions, id \in ids : Load(p, kind, id)
  \/ \E p \in procs : AppState(p)
  \/ \E p \in procs, who \in Signers, rid \in RequestIds : ReadFile(p, who, rid)
  \/ \E p \in procs : AddCommitTo(p)
  \/ \E p \in procs, id \in ids, amount \in RefillAmounts : RefillStart(p, id, amount)
  \/ \E p \in procs, id \in ids : TotalDcReached(p, id)
  \/ \E p \in procs : SweepLoad(p)
  \/ \E p \in procs : CreateRefillPr(p)
  \/ \E p \in procs, filter \in Filters(ids) : ListActive(p, filter)
  \/ \E p \in procs : ListMerged(p)
  \/ \E pr \in prs, delete \in BOOLEAN : Merge(pr, delete)

\* concurrent callers on the first NumApps applications
Next ==
  \/ Calls(Procs, Ids)
  \/ \E p \in Procs : SweepGetFile(p)

Spec == Init /\ [][Next]_vars

\* a transition called on a handle that has already committed one: the
\* transitions take &self, and the handle keeps file_sha, file_name and
\* branch_name of its load (the routes load anew for every call, a caller of
\* the library need not)
Reuse(p, kind) ==
  /\ proc[p].pc = "done"
  /\ proc[p].kind \in Transitions /\ kind \in Transitions
  /\ proc[p].file_name # <<>>
  /\ proc[p].result = "Ok" \/ proc[p].reuse
  /\ proc' = [proc EXCEPT ![p] =
                [Idle EXCEPT !.kind = kind, !.id = proc[p].id, !.pc = "app_state",
                             !.sha = proc[p].sha,
                             !.file_name = proc[p].file_name,
                             !.branch_name = proc[p].branch_name,
                             !.reuse = TRUE]]
  /\ UNCHANGED <<main, branch, prs, uuidCtr, log, created>>

\* one caller of the library on the first NumApps applications, who may go
\* on with the handle it has
NextReuse ==
  \/ Calls(OneCaller, Ids)
  \/ \E p \in OneCaller, kind \in Transitions : Reuse(p, kind)

SpecReuse == Init /\ [][NextReuse]_vars

\* one caller on all the applications of the store. total_dc_reached of a
\* single caller never gets past its load (no application is in merged() and
\* staged at once), so the step after the load is not part of it
NextApps == Calls(OneCaller, AllIds)

SpecApps == Init /\ [][NextApps]_vars

\* ------------------------------------------------------------------ claims
Answered(p) == proc[p].pc = "done"

\* a transition call that came to its conditional write
Wrote(p) == Answered(p) /\ proc[p].kind \in Transitions /\ proc[p].wrote

\* the versions of application id committed under token sha
CommittedOn(id, sha) == {k \in 1..Len(log[id]) : log[id][k].token = sha}

\* two transition calls that loaded the same document and token and both
\* came to their write
SameLoad(p, q) ==
  /\ p # q /\ Wrote(p) /\ Wrote(q)
  /\ proc[p].id = proc[q].id
  /\ proc[p].sha = proc[q].sha

C2_NoLostUpdate ==
  \A id \in Ids : \A k \in 2..Len(log[id]) :
    /\ log[id][k].read = <<log[id][k-1].doc>>
    /\ log[id][k].token = Sha(<<log[id][k-1].doc>>)

\* C3: a transition whose required source state is not the state the
\* application is in is answered InvalidTransition and issues no write.
C3_WrongStateRejected ==
  \A p \in Procs :
    (Answered(p) /\ proc[p].kind \in Transitions /\ proc[p].seen # ""
       /\ proc[p].seen # RequiredState(proc[p].kind)) =>
      /\ proc[p].result = "InvalidState"
      /\ ~proc[p].wrote
      /\ proc[p].newdoc = <<>>

C3_Witness ==
  \E p \in Procs :
    /\ Answered(p) /\ proc[p].kind = "approve"
    /\ proc[p].seen = "ReadyToSign"
    /\ proc[p].result = "InvalidState"

\* C4: once create, complete_governance_review, propose and approve have each
\* committed, in that order, the persisted states were GovernanceReview,
\* ReadyToSign, StartSignDatacap, and the application is Granted with exactly
\* one allocation request, of type Initial, holding exactly two signers.
C4_EndToEnd ==
  \A id \in Ids :
    Len(log[id]) >= 5 =>
      /\ log[id][2].doc.state = "GovernanceReview"
      /\ log[id][3].doc.state = "ReadyToSign"
      /\ log[id][4].doc.state = "StartSignDatacap"
      /\ log[id][5].doc.state = "Granted"
      /\ Len(log[id][5].doc.allocs) = 1
      /\ log[id][5].doc.allocs[1].type = First
      /\ Len(log[id][5].doc.allocs[1].signers) = 2

\* a propose or approve call that read the document and was sent a request
\* id that is not the active allocation request
InactiveRequest(p, kind) ==
  /\ Answered(p) /\ proc[p].kind = kind
  /\ proc[p].doc # <<>>
  /\ ~IsActive(proc[p].doc[1].allocs, proc[p].rid)

\* C5: propose with a request id that is not the active allocation request
\* is rejected and issues no write.
C5_ProposeInactiveRejected ==
  \A p \in Procs :
    InactiveRequest(p, "propose") =>
      /\ proc[p].result = "RequestNotActive"
      /\ ~proc[p].wrote
      /\ proc[p].newdoc = <<>>

C5_Witness ==
  \E p \in Procs :
    /\ InactiveRequest(p, "propose")
    /\ proc[p].doc[1].state = "ReadyToSign"
    /\ proc[p].result = "RequestNotActive"
    /\ File(proc[p].id) = proc[p].doc

\* C6: approve with a request id that is not the active allocation request
\* is rejected and issues no write.
C6_ApproveInactiveRejected ==
  \A p \in Procs :
    InactiveRequest(p, "approve") =>
      /\ proc[p].result = "RequestNotActive"
      /\ ~proc[p].wrote
      /\ proc[p].newdoc = <<>>

\* the number of Refill entries among the first n allocation requests
RECURSIVE RefillsIn(_, _)
RefillsIn(allocs, n) ==
  IF n = 0 THEN 0
  ELSE RefillsIn(allocs, n - 1) + (IF allocs[n].type.kind = "Refill" THEN 1 ELSE 0)

\* C7: a committed refill appends one request of type Refill(k), k the number
\* of Refill entries before it plus one, and leaves the earlier requests as
\* they were.
C7_RefillNumbered ==
  \A id \in Ids : \A k \in 2..Len(log[id]) :
    LET old == log[id][k-1].doc.allocs
        new == log[id][k].doc.allocs
    IN (Len(new) = Len(old) + 1 /\ new[Len(new)].type.kind = "Refill") =>
         /\ new[Len(new)].type = Refill(RefillsIn(old, Len(old)) + 1)
         /\ SubSeq(new, 1, Len(old)) = old

\* C8: create application on a ticket whose document exists at the computed
\* path and branch is answered AlreadyExists and writes nothing; so is every
\* create application that starts after one for the same ticket returned Ok.
C8_CreateTwiceRejected ==
  \A p \in Procs :
    (Answered(p) /\ proc[p].kind = "create"
       /\ (proc[p].pre # <<>> \/ proc[p].later)) =>
      /\ proc[p].result = "AlreadyExists"
      /\ ~proc[p].wrote

\* C9: when create application returns Ok, the staging branch holds the
\* initial document: GovernanceReview, no allocation request.
C9_CreateOkCommitted ==
  \A p \in Procs :
    (Answered(p) /\ proc[p].kind = "create" /\ proc[p].result = "Ok") =>
      proc[p].obs = <<NewApplicationFile(proc[p].id)>>

ActiveIds == {a.app.id : a \in Active(<<>>)}

MergedIds == {m.app.id : m \in Merged}

\* C10: on one snapshot of the store, no application id is in both the
\* active listing and the merged listing.
C10_ListingsDisjoint ==
  (~ActivePanics /\ ~MergedFails) => ActiveIds \cap MergedIds = {}

C10_Witness ==
  /\ ~ActivePanics /\ ~MergedFails
  /\ \E id \in ActiveIds :
       /\ main[ApplicationPath(id)] # <<>>
       /\ main[ApplicationPath(id)][1].active
  /\ ActiveIds \cap MergedIds = {}

\* caller p goes from one answered call to the answer of a call of this kind
Answers(p, kind) == proc'[p] # proc[p] /\ proc'[p].kind = kind /\ proc'[p].pc = "done"

\* the ids of the open pull requests a listing under this filter id (0: none)
\* has to show, when every document can be read
OpenIds(fid) == {PrFile(pr)[1].id : pr \in {q \in prs : fid = 0 \/ PrFile(q)[1].id = fid}}

\* C11: list_active is all-or-nothing: when the document of some open pull
\* request cannot be fetched or parsed it returns an error result, otherwise
\* it returns Ok with exactly the applications of the open pull requests
\* (those of the filter id, when one is given).
C11_ActiveAllOrNothing ==
  [][\A p \in Procs :
       Answers(p, "list_active") =>
         IF ActivePanics
           THEN proc'[p].result = "ActiveError"
           ELSE /\ proc'[p].result = "Ok"
                /\ proc'[p].listed = OpenIds(proc'[p].id)]_vars

\* the ids of the applications on the main line
MainIds == {main[path][1].id : path \in {q \in Paths : main[q] # <<>>}}

\* the main-line application with this id is not archived
MainActive(id) == \E path \in Paths : main[path] # <<>> /\ main[path][1].id = id
                                         /\ main[path][1].active

\* C12: whatever the main line holds, archived applications included,
\* list_merged returns Ok with exactly the main-line applications that are
\* active (is_active true) and have no open pull request.
C12_MergedExact ==
  [][\A p \in Procs :
       (Answers(p, "list_merged") /\ ~ActivePanics) =>
         /\ proc'[p].result = "Ok"
         /\ proc'[p].listed = {id \in MainIds : MainActive(id) /\ id \notin OpenIds(0)}]_vars

\* C13: check_total_reached on a merged Granted application commits the
\* archival document (is_active false) on the main-line copy, touches no
\* staging branch and no pull request, and returns true, whether or not the
\* application has an open pull request.
C13_SweepCommitsOnMain ==
  [][\A p \in Procs :
       (Answers(p, "sweep") /\ proc'[p].doc # <<>>
          /\ proc'[p].doc[1].state = "Granted") =>
         /\ proc'[p].result = "Ok"
         /\ main'[ApplicationPath(proc'[p].id)] = <<DocReachedTotalDatacap(proc'[p].doc[1])>>
         /\ branch' = branch
         /\ prs' = prs]_vars

\* the quantity an amount string stands for
Quantity(amount) ==
  CASE amount = "100TiB" -> 100
    [] amount = "50TiB" -> 50
    [] OTHER -> 0

\* the amount granted by the first n allocation requests: a request grants
\* its amount once it holds both signers
RECURSIVE GrantedIn(_, _)
GrantedIn(allocs, n) ==
  IF n = 0 THEN 0
  ELSE GrantedIn(allocs, n - 1)
         + (IF Len(allocs[n].signers) >= RequiredSigners
              THEN Quantity(allocs[n].amount) ELSE 0)

\* the cumulative granted amount meets the total requested amount
TotalReached(doc) == GrantedIn(doc.allocs, Len(doc.allocs)) >= Quantity(doc.total)

\* C14: a committed document has is_active false only if it is Granted and its
\* cumulative granted amount meets its total requested amount; and
\* check_total_reached on a Granted application below its total commits
\* nothing and does not return true.
C14_ArchivedOnlyWhenReached ==
  /\ \A id \in Ids : \A k \in 1..Len(log[id]) :
       (Parses(log[id][k].doc) /\ ~log[id][k].doc.active) =>
         /\ log[id][k].doc.state = "Granted"
         /\ TotalReached(log[id][k].doc)
  /\ \A p \in Procs :
       (Answered(p) /\ proc[p].kind = "sweep" /\ proc[p].doc # <<>>
          /\ proc[p].doc[1].state = "Granted" /\ ~TotalReached(proc[p].doc[1])) =>
         proc[p].result # "Ok"

\* C15: a transition call writes to the store in one step only, its single
\* add_commit_to, which ends the call; when the store rejects or fails that
\* write the call is answered with the commit error and branches, main line,
\* pull requests and committed versions are what they were.
C15_OneWriteNoRetry ==
  [][\A p \in Procs :
       (proc'[p] # proc[p] /\ proc'[p].kind \in Transitions) =>
         IF proc[p].pc = "add_commit_to"
           THEN /\ proc'[p].pc = "done"
                /\ proc'[p].cause # "" =>
                     /\ proc'[p].result = "CommitFailed"
                     /\ <<main, branch, prs, log>>' = <<main, branch, prs, log>>
           ELSE <<main, branch, prs, log>>' = <<main, branch, prs, log>>]_vars

C15_Witness ==
  \E p \in Procs :
    /\ Wrote(p) /\ proc[p].kind = "propose"
    /\ proc[p].cause = "AdapterError"
    /\ proc[p].result = "CommitFailed"
    /\ File(proc[p].id) = proc[p].doc

\* the place of a lifecycle state in the order GovernanceReview < ReadyToSign
\* < StartSignDatacap < Granted; the placeholder comes before all of them
StateRank(state) ==
  CASE state = "{}" -> 0
    [] state = "GovernanceReview" -> 1
    [] state = "ReadyToSign" -> 2
    [] state = "StartSignDatacap" -> 3
    [] state = "Granted" -> 4

\* version k of application id appends an allocation request of type Refill
AppendsRefill(id, k) ==
  LET old == log[id][k-1].doc.allocs
      new == log[id][k].doc.allocs
  IN Len(new) = Len(old) + 1 /\ new[Len(new)].type.kind = "Refill"

\* C16: from each committed version of an application to the next the
\* lifecycle state stays or moves to the next state of the order, never back
\* and never over a state; a version that appends a refill request is Granted
\* like the one before it.
C16_StateForwardByOne ==
  \A id \in Ids : \A k \in 2..Len(log[id]) :
    LET was == StateRank(log[id][k-1].doc.state)
        now == StateRank(log[id][k].doc.state)
    IN /\ now \in {was, was + 1}
       /\ AppendsRefill(id, k) => (was = 4 /\ now = 4)

C16_Witness ==
  \E id \in Ids :
    /\ Len(log[id]) >= 6
    /\ \A k \in 2..5 : StateRank(log[id][k].doc.state) = StateRank(log[id][k-1].doc.state) + 1
    /\ AppendsRefill(id, 6)
    /\ log[id][6].doc.state = "Granted"

\* the newest allocation request of the document is a Refill without signers
PendingRefill(doc) ==
  /\ Len(doc.allocs) > 0
  /\ doc.allocs[Len(doc.allocs)].type.kind = "Refill"
  /\ doc.allocs[Len(doc.allocs)].signers = <<>>

\* C17: after a committed refill the new request can be signed: a propose on
\* an application whose staged document carries a Refill request without
\* signers is not turned away for the lifecycle state it finds.
C17_RefillCanBeSigned ==
  [][\A p \in Procs :
       (proc[p].pc = "app_state" /\ proc[p].kind = "propose" /\ proc'[p] # proc[p]
          /\ ~FileFails(proc[p].id) /\ PendingRefill(File(proc[p].id)[1])) =>
         proc'[p].pc = "file"]_vars

\* the allocation requests of a document that hold fewer than two signers
Unfinished(doc) == {i \in 1..Len(doc.allocs) : Len(doc.allocs[i].signers) < RequiredSigners}

\* C18 (invariant A1): every committed document has at most one allocation
\* request with fewer than two signers, and a version that appends a refill
\* request follows one in which every request is finished.
C18_OneActiveRequest ==
  \A id \in Ids : \A k \in 1..Len(log[id]) :
    /\ Cardinality(Unfinished(log[id][k].doc)) <= 1
    /\ (k > 1 /\ AppendsRefill(id, k)) => Unfinished(log[id][k-1].doc) = {}

IsPrefix(a, b) == Len(a) <= Len(b) /\ SubSeq(b, 1, Len(a)) = a

\* C19 (invariant A2): from each committed version of an application to the
\* next, every allocation request keeps the signers it had, in their order,
\* at the front of its signer list; and no request of a committed version
\* holds more than two signers.
C19_SignersAppendOnly ==
  \A id \in Ids : \A k \in 1..Len(log[id]) :
    \A j \in 1..Len(log[id][k].doc.allocs) :
      LET req == log[id][k].doc.allocs[j]
      IN /\ Len(req.signers) <= RequiredSigners
         /\ k > 1 =>
              \A i \in 1..Len(log[id][k-1].doc.allocs) :
                log[id][k-1].doc.allocs[i].id = req.id =>
                  IsPrefix(log[id][k-1].doc.allocs[i].signers, req.signers)

C19_Witness ==
  \E id \in Ids : \E k \in 2..Len(log[id]) :
    /\ Len(log[id][k].doc.allocs) = 1 /\ Len(log[id][k-1].doc.allocs) = 1
    /\ log[id][k-1].doc.allocs[1].signers = <<"carol">>
    /\ log[id][k].doc.allocs[1].signers = <<"carol", "bob">>

\* application id has an open pull request
Staged(id) == \E pr \in prs : PrFile(pr) # <<>> /\ PrFile(pr)[1].id = id

\* the answers by which refill returns an error
RefillErrors == {"MergedError", "RefillNotFound"}

\* C20: a refill for an application that is archived, or is not in the merged
\* set (not on the main line, or staged), is answered with an error and
\* leaves main line, branches, pull requests, committed versions and issued
\* request ids as they are; and a main-line document with is_active false
\* stays on the main line with is_active false.
C20_RefillOfArchivedRejected ==
  [][/\ \A p \in Procs :
          (Free(p) /\ Answers(p, "refill")
             /\ (~MainActive(proc'[p].id) \/ Staged(proc'[p].id))) =>
            /\ proc'[p].result \in RefillErrors
            /\ <<main, branch, prs, log, uuidCtr>>' = <<main, branch, prs, log, uuidCtr>>
     /\ \A path \in Paths :
          (main[path] # <<>> /\ ~main[path][1].active) =>
            (main'[path] # <<>> /\ ~main'[path][1].active)]_vars

\* C21: a refill or a sweep that commits carries the token of the document
\* it computed its new document from: a main-line document that changed
\* after the call read the application is never written over.
C21_TokenOfTheRead ==
  \A p \in Procs :
    (Answered(p) /\ proc[p].kind \in {"refill", "sweep"} /\ proc[p].wrote
       /\ proc[p].result = "Ok") =>
      proc[p].sha = Sha(proc[p].doc)

\* application id has an open pull request whose document can be read
ReadableStaged(id) ==
  \E pr \in prs : /\ PrFile(pr) # <<>>
                  /\ Parses(PrFile(pr)[1])
                  /\ PrFile(pr)[1].id = id

\* C22: applications are independent: the load of a transition on an
\* application that is staged with a readable document finds it, whatever the
\* documents of the other applications' pull requests are.
C22_AppsIndependent ==
  [][\A p \in Procs :
       (Free(p) /\ proc'[p] # proc[p] /\ proc'[p].kind \in Transitions
          /\ ReadableStaged(proc'[p].id)) =>
         proc'[p].pc = "app_state"]_vars

\* caller p holds a handle: it has loaded and is inside its transition
HoldsHandle(p) ==
  proc[p].kind \in Transitions /\ proc[p].pc \in {"app_state", "file", "add_commit_to"}

C24_StagedAlwaysParses ==
  \A pr \in prs : PrFile(pr) # <<>> /\ Parses(PrFile(pr)[1])

\* the open pull requests whose document carries application id
StagedCopies(id) == {pr \in prs : PrFile(pr) # <<>> /\ PrFile(pr)[1].id = id}

C26_ReuseFailsAtCommit ==
  \A p \in Procs :
    (proc[p].pc = "done" /\ proc[p].reuse /\ proc[p].cause # "AdapterError") =>
      /\ proc[p].wrote
      /\ proc[p].result = "CommitFailed" /\ proc[p].cause = "VersionConflict"

\* C26, amended: a transition called on a handle that has already committed
\* does not commit: no step of it changes the store, it is not answered Ok,
\* and when it comes to its write the store refuses it (stale token) or fails.
\* It may end before its write, on the state or the request id it reads.
C26_HandleNotReusable ==
  [][\A p \in Procs :
       (proc'[p] # proc[p] /\ proc'[p].reuse) =>
         /\ <<main, branch, prs, log>>' = <<main, branch, prs, log>>
         /\ proc'[p].pc = "done" => proc'[p].result # "Ok"
         /\ proc'[p].wrote =>
              /\ proc'[p].result = "CommitFailed"
              /\ proc'[p].cause \in {"VersionConflict", "AdapterError"}]_vars

C26_Witness ==
  \E p \in Procs :
    /\ Answered(p) /\ proc[p].reuse /\ proc[p].kind = "propose"
    /\ proc[p].wrote /\ proc[p].cause = "VersionConflict"
    /\ proc[p].doc = File(proc[p].id)

====
